---- MODULE Spec2Model ----
(***************************************************************************)
(* Model of priv/python/chatterbex_bridge.py: the line-oriented command    *)
(* loop (main), the model session (ChatterboxBridge) and the device        *)
(* fallback policy (_detect_device).  The external TTS library, torch and  *)
(* torchaudio are the environment: each of their calls either returns or   *)
(* raises, chosen nondeterministically.                                    *)
(***************************************************************************)
EXTENDS Integers, Sequences, FiniteSets, TLC

VARIABLES
    cudaAvail,      \* torch.cuda.is_available()
    mpsAvail,       \* torch.backends.mps.is_available()
    model,          \* bridge.model        (NoModel is Python's None)
    model_type,     \* bridge.model_type   (NoneVal is Python's None)
    device,         \* bridge.device       (NoneVal is Python's None)
    actual_device,  \* local of init_model, value of its last evaluation
    pc,             \* position of main: "read", "dispatch", "done", "crashed"
    line,           \* the line last taken from stdin
    nRead,          \* number of lines taken from stdin so far
    reqs,           \* number of non-empty lines taken from stdin so far
    out,            \* lines written to stdout, each tagged with the request it answers
    calls,          \* calls into the external library made for the current line
    initOk          \* history: some init has returned status ok

vars == <<cudaAvail, mpsAvail, model, model_type, device, actual_device,
          pc, line, nRead, reqs, out, calls, initOk>>

session == <<model, model_type, device>>

(***************************************************************************)
(* Bounds                                                                  *)
(***************************************************************************)
MaxLines == 3

(***************************************************************************)
(* Values                                                                  *)
(***************************************************************************)
NoneVal == "<None>"
NoModel == [cls |-> NoneVal]

\* str(v) as used by the f-strings: None prints as "None", a string as itself
Str(v) == IF v = NoneVal THEN "None" ELSE v

\* bool(v) for the JSON values used here: None and "" are falsy
Truthy(v) == v # NoneVal /\ v # ""

\* dict.get(key, default)
Get(d, key, default) == IF key \in DOMAIN d THEN d[key] ELSE default

Last(s) == s[Len(s)]

(***************************************************************************)
(* Input lines.  A line is blank (whitespace only), malformed JSON, a      *)
(* well-formed JSON value that is not an object, or a JSON object.         *)
(***************************************************************************)
InitModels  == {"turbo", "english", "multilingual", "bogus"}
InitDevices == {"cuda", "mps", "cpu", "tpu"}

InitRequests ==
    {[type |-> "init"]}
    \cup {[type |-> "init", model |-> m] : m \in InitModels}
    \cup {[type |-> "init", device |-> d] : d \in InitDevices}
    \cup {[type |-> "init", model |-> m, device |-> d] :
              m \in InitModels, d \in InitDevices}

GenerateOptions ==
    { <<>>,
      [language |-> "fr"],
      [exaggeration |-> "0.7", cfg_weight |-> NoneVal],
      [audio_prompt |-> "ref.wav", language |-> "fr",
       exaggeration |-> "0.7", cfg_weight |-> "0.3"],
      [audio_prompt |-> ""],
      [self |-> "x"] }

GenerateRequests ==
    {[type |-> "generate"] @@ o : o \in GenerateOptions}
    \cup {[type |-> "generate", text |-> "hello"] @@ o : o \in GenerateOptions}

PingRequests == {[type |-> "ping"], [type |-> "ping", text |-> "hello", model |-> "turbo"]}

OtherRequests == {[type |-> "unknown"], [text |-> "hello"], [type |-> NoneVal],
                  [type |-> "Init", model |-> "turbo"]}

Objects == InitRequests \cup GenerateRequests \cup PingRequests \cup OtherRequests

BlankTexts     == {"", " ", "  "}
MalformedTexts == {"{bad", "[1,"}
ValueTexts     == {"5", "\"s\"", "[]", "null"}

Lines ==
    {[k |-> "text", s |-> t] : t \in BlankTexts \cup MalformedTexts \cup ValueTexts}
    \cup {[k |-> "object", obj |-> o] : o \in Objects}

\* str.strip() on the texts used here (spaces are the only whitespace)
RECURSIVE LStrip(_)
LStrip(s) == IF Len(s) > 0 /\ SubSeq(s, 1, 1) = " " THEN LStrip(SubSeq(s, 2, Len(s))) ELSE s
RECURSIVE RStrip(_)
RStrip(s) == IF Len(s) > 0 /\ SubSeq(s, Len(s), Len(s)) = " "
             THEN RStrip(SubSeq(s, 1, Len(s) - 1)) ELSE s
Strip(l) == IF l.k = "text" THEN [l EXCEPT !.s = LStrip(RStrip(l.s))] ELSE l

\* `not line`
IsEmpty(l) == l.k = "text" /\ l.s = ""

\* json.loads(line): raises JSONDecodeError with a message, or returns a value
\* that is a dict or is not
json_loads(l) ==
    IF l.k = "object" THEN [raises |-> FALSE, isDict |-> TRUE, value |-> l.obj]
    ELSE IF l.s \in ValueTexts THEN [raises |-> FALSE, isDict |-> FALSE, value |-> l.s]
    ELSE [raises |-> TRUE,
          msg |-> IF l.s = "{bad"
                  THEN "Expecting property name enclosed in double quotes"
                  ELSE "Expecting value"]

\* _detect_device without the availability test of the MPS branch
_detect_device_NoMpsCheck(requested_device, cuda, mps) ==
    IF requested_device = "cuda" THEN (IF cuda THEN "cuda" ELSE "cpu")
    ELSE IF requested_device = "mps" THEN "mps"
    ELSE "cpu"

(***************************************************************************)
(* _detect_device                                                          *)
(***************************************************************************)
_detect_device(requested_device, cuda, mps) ==
    IF requested_device = "cuda" THEN (IF cuda THEN "cuda" ELSE "cpu")
    ELSE IF requested_device = "mps" THEN (IF mps THEN "mps" ELSE "cpu")
    ELSE "cpu"

\* loading straight to the resolved device
LoadDevice_Direct(actual) == actual

\* load_device = "cpu" if actual_device == "mps" else actual_device
LoadDevice(actual) == IF actual = "mps" THEN "cpu" ELSE actual

KnownModels == {"turbo", "english", "multilingual"}

(***************************************************************************)
(* ChatterboxBridge.  A bridge value b is [model, model_type, device].     *)
(* Every operation returns the bridge after it, the response it returns    *)
(* and the calls it made into the external library.                        *)
(***************************************************************************)
NewBridge == [model |-> NoModel, model_type |-> NoneVal, device |-> NoneVal]

\* str(e) of what the library raises
LoadErrorText     == "load failed"
GenerateErrorText == "generate failed"
SaveErrorText     == "save failed"

ErrorResponse(text) == [status |-> "error", error |-> text]

\* _move_to_mps: moveOk is whether every component.to("mps") returned
_move_to_mps(b, moveOk) ==
    IF moveOk
    THEN [b EXCEPT !.model.device = "mps"]
    ELSE [b EXCEPT !.device = "cpu", !.model.device = "cpu"]

\* the value init_model returns on success
InitOkResponse(actual) == [status |-> "ok", device |-> actual]

\* init_model clearing the handle before it loads: a failed init unloads
init_model_ClearFirst(b, mt, dev, cuda, mps, loadOk, moveOk) ==
    LET actual == _detect_device(dev, cuda, mps)
        b1     == [b EXCEPT !.device = actual, !.model_type = mt, !.model = NoModel]
        load   == LoadDevice(actual)
        loadCall(r) == [fn |-> "from_pretrained", cls |-> mt, device |-> load, raised |-> r]
    IN  IF mt \notin KnownModels
        THEN [bridge |-> b1, actual |-> actual, calls |-> <<>>,
              response |-> ErrorResponse("Unknown model type: " \o Str(mt))]
        ELSE IF ~loadOk
        THEN [bridge |-> b1, actual |-> actual, calls |-> <<loadCall(TRUE)>>,
              response |-> ErrorResponse(LoadErrorText)]
        ELSE LET b2 == [b1 EXCEPT !.model = [cls |-> mt, device |-> load]]
                 relocate == actual = "mps" /\ load = "cpu"
                 b3 == IF relocate THEN _move_to_mps(b2, moveOk) ELSE b2
             IN  [bridge |-> b3, actual |-> actual,
                  calls |-> IF relocate
                            THEN <<loadCall(FALSE),
                                   [fn |-> "to", device |-> "mps", raised |-> ~moveOk]>>
                            ELSE <<loadCall(FALSE)>>,
                  response |-> InitOkResponse(actual)]

\* init_model: loadOk is whether from_pretrained returned
init_model(b, mt, dev, cuda, mps, loadOk, moveOk) ==
    LET actual == _detect_device(dev, cuda, mps)
        b1     == [b EXCEPT !.device = actual, !.model_type = mt]
        load   == LoadDevice(actual)
        loadCall(r) == [fn |-> "from_pretrained", cls |-> mt, device |-> load, raised |-> r]
    IN  IF mt \notin KnownModels
        THEN [bridge |-> b1, actual |-> actual, calls |-> <<>>,
              response |-> ErrorResponse("Unknown model type: " \o Str(mt))]
        ELSE IF ~loadOk
        THEN [bridge |-> b1, actual |-> actual, calls |-> <<loadCall(TRUE)>>,
              response |-> ErrorResponse(LoadErrorText)]
        ELSE LET b2 == [b1 EXCEPT !.model = [cls |-> mt, device |-> load]]
                 relocate == actual = "mps" /\ load = "cpu"
                 b3 == IF relocate THEN _move_to_mps(b2, moveOk) ELSE b2
             IN  [bridge |-> b3, actual |-> actual,
                  calls |-> IF relocate
                            THEN <<loadCall(FALSE),
                                   [fn |-> "to", device |-> "mps", raised |-> ~moveOk]>>
                            ELSE <<loadCall(FALSE)>>,
                  response |-> InitOkResponse(actual)]

\* the gen_kwargs that generate assembles from the request's extra fields
GenKwargs(mt, kwargs) ==
    LET has(k) == k \in DOMAIN kwargs
        a == IF has("audio_prompt") /\ Truthy(kwargs["audio_prompt"])
             THEN [audio_prompt_path |-> kwargs["audio_prompt"]] ELSE <<>>
        l == IF mt = "multilingual" /\ has("language")
             THEN [language_id |-> kwargs["language"]] ELSE <<>>
        e == IF mt = "english" /\ has("exaggeration") /\ kwargs["exaggeration"] # NoneVal
             THEN [exaggeration |-> kwargs["exaggeration"]] ELSE <<>>
        c == IF mt = "english" /\ has("cfg_weight") /\ kwargs["cfg_weight"] # NoneVal
             THEN [cfg_weight |-> kwargs["cfg_weight"]] ELSE <<>>
    IN  a @@ l @@ e @@ c

\* Tensors the library's generate may return: dim dimensions, n samples a channel
Wavs == {[dim |-> 1, ch |-> 1, n |-> 0], [dim |-> 2, ch |-> 2, n |-> 1]}

WavHeaderLen   == 44   \* RIFF/WAVE header written by ta.save(format="wav")
BytesPerSample == 2

\* _wav_to_bytes without buffer.seek(0): buffer.read() returns no bytes
_wav_to_bytes_NoSeek(wav) == 0

\* _wav_to_bytes: the number of bytes of the WAV container
_wav_to_bytes(wav) ==
    LET w == IF wav.dim = 1 THEN [wav EXCEPT !.dim = 2, !.ch = 1] ELSE wav
    IN  WavHeaderLen + BytesPerSample * w.ch * w.n

\* base64.b64encode(bytes).decode(): the number of characters of the text
b64encode(nbytes) == 4 * ((nbytes + 2) \div 3)

\* generate calling model.generate a second time when the first call raises
generate_Retry(b, text, kwargs, genOk, wav, encOk) ==
    IF b.model = NoModel
    THEN [response |-> ErrorResponse("Model not initialized"), calls |-> <<>>]
    ELSE LET genCall(r) == [fn |-> "generate", text |-> text,
                            kwargs |-> GenKwargs(b.model_type, kwargs), raised |-> r]
             saveCall(r) == [fn |-> "save", raised |-> r]
         IN  IF ~genOk
             THEN [response |-> ErrorResponse(GenerateErrorText),
                   calls |-> <<genCall(TRUE), genCall(TRUE)>>]
             ELSE IF ~encOk
             THEN [response |-> ErrorResponse(SaveErrorText),
                   calls |-> <<genCall(FALSE), saveCall(TRUE)>>]
             ELSE [response |-> [status |-> "ok", audio |-> b64encode(_wav_to_bytes(wav))],
                   calls |-> <<genCall(FALSE), saveCall(FALSE)>>]

\* generate: genOk is whether model.generate returned (wav), encOk whether
\* _wav_to_bytes returned.  The audio field is the length of its text.
generate(b, text, kwargs, genOk, wav, encOk) ==
    IF b.model = NoModel
    THEN [response |-> ErrorResponse("Model not initialized"), calls |-> <<>>]
    ELSE LET genCall(r) == [fn |-> "generate", text |-> text,
                            kwargs |-> GenKwargs(b.model_type, kwargs), raised |-> r]
             saveCall(r) == [fn |-> "save", raised |-> r]
         IN  IF ~genOk
             THEN [response |-> ErrorResponse(GenerateErrorText), calls |-> <<genCall(TRUE)>>]
             ELSE IF ~encOk
             THEN [response |-> ErrorResponse(SaveErrorText),
                   calls |-> <<genCall(FALSE), saveCall(TRUE)>>]
             ELSE [response |-> [status |-> "ok", audio |-> b64encode(_wav_to_bytes(wav))],
                   calls |-> <<genCall(FALSE), saveCall(FALSE)>>]

(***************************************************************************)
(* main                                                                    *)
(***************************************************************************)
Bridge == [model |-> model, model_type |-> model_type, device |-> device]

\* print(json.dumps(response), flush=True): one line on stdout, for request reqs
Emit(response) == Append(out, [req |-> reqs, resp |-> response])

Init ==
    /\ cudaAvail \in BOOLEAN
    /\ mpsAvail \in BOOLEAN
    /\ model = NewBridge.model
    /\ model_type = NewBridge.model_type
    /\ device = NewBridge.device
    /\ actual_device = NoneVal
    /\ pc = "read"
    /\ line = [k |-> "text", s |-> ""]
    /\ nRead = 0
    /\ reqs = 0
    /\ out = <<>>
    /\ calls = <<>>
    /\ initOk = FALSE

\* for line in sys.stdin: line = line.strip(); if not line: continue
ReadLine ==
    /\ pc = "read"
    /\ nRead < MaxLines
    /\ \E l \in Lines :
          /\ line' = Strip(l)
          /\ nRead' = nRead + 1
          /\ calls' = <<>>
          /\ IF IsEmpty(Strip(l))
             THEN pc' = "read" /\ reqs' = reqs
             ELSE pc' = "dispatch" /\ reqs' = reqs + 1
    /\ UNCHANGED <<cudaAvail, mpsAvail, model, model_type, device, actual_device,
                   out, initOk>>

\* sys.stdin is exhausted: the for loop and main return
EndOfInput ==
    /\ pc = "read"
    /\ pc' = "done"
    /\ UNCHANGED <<cudaAvail, mpsAvail, model, model_type, device, actual_device,
                   line, nRead, reqs, out, calls, initOk>>

InvalidJsonResponse(msg) == ErrorResponse("Invalid JSON: " \o msg)

\* the except clause leaving the loop instead of continuing
ParseError_Break ==
    /\ pc = "dispatch"
    /\ json_loads(line).raises
    /\ out' = Emit(InvalidJsonResponse(json_loads(line).msg))
    /\ pc' = "done"
    /\ UNCHANGED <<cudaAvail, mpsAvail, model, model_type, device, actual_device,
                   line, nRead, reqs, calls, initOk>>

\* except json.JSONDecodeError: print the error response; continue
ParseError ==
    /\ pc = "dispatch"
    /\ json_loads(line).raises
    /\ out' = Emit(InvalidJsonResponse(json_loads(line).msg))
    /\ pc' = "read"
    /\ UNCHANGED <<cudaAvail, mpsAvail, model, model_type, device, actual_device,
                   line, nRead, reqs, calls, initOk>>

\* request.get("type") on a value that is no dict: AttributeError, not caught
NonObjectRequest ==
    /\ pc = "dispatch"
    /\ ~json_loads(line).raises
    /\ ~json_loads(line).isDict
    /\ pc' = "crashed"
    /\ UNCHANGED <<cudaAvail, mpsAvail, model, model_type, device, actual_device,
                   line, nRead, reqs, out, calls, initOk>>

IsRequest == pc = "dispatch" /\ ~json_loads(line).raises /\ json_loads(line).isDict
request == json_loads(line).value
request_type == Get(request, "type", NoneVal)

\* main defaulting the device of an init to "cpu"
DispatchInit_DefaultCpu ==
    /\ IsRequest
    /\ request_type = "init"
    /\ \E loadOk \in BOOLEAN, moveOk \in BOOLEAN :
          LET r == init_model(Bridge, Get(request, "model", "turbo"),
                              Get(request, "device", "cpu"),
                              cudaAvail, mpsAvail, loadOk, moveOk)
          IN  /\ model' = r.bridge.model
              /\ model_type' = r.bridge.model_type
              /\ device' = r.bridge.device
              /\ actual_device' = r.actual
              /\ calls' = r.calls
              /\ out' = Emit(r.response)
              /\ initOk' = (initOk \/ r.response.status = "ok")
    /\ pc' = "read"
    /\ UNCHANGED <<cudaAvail, mpsAvail, line, nRead, reqs>>

DispatchInit ==
    /\ IsRequest
    /\ request_type = "init"
    /\ \E loadOk \in BOOLEAN, moveOk \in BOOLEAN :
          LET r == init_model(Bridge, Get(request, "model", "turbo"),
                              Get(request, "device", "cuda"),
                              cudaAvail, mpsAvail, loadOk, moveOk)
          IN  /\ model' = r.bridge.model
              /\ model_type' = r.bridge.model_type
              /\ device' = r.bridge.device
              /\ actual_device' = r.actual
              /\ calls' = r.calls
              /\ out' = Emit(r.response)
              /\ initOk' = (initOk \/ r.response.status = "ok")
    /\ pc' = "read"
    /\ UNCHANGED <<cudaAvail, mpsAvail, line, nRead, reqs>>

\* kwargs = {k: v for k, v in request.items() if k not in ("type", "text")}
Kwargs(req) == [k \in DOMAIN req \ {"type", "text"} |-> req[k]]

\* a generate that fails dropping the loaded model
DispatchGenerate_DropOnError ==
    /\ IsRequest
    /\ request_type = "generate"
    /\ IF "self" \in DOMAIN [k \in DOMAIN request \ {"type", "text"} |-> request[k]]
       THEN /\ pc' = "crashed"
            /\ UNCHANGED <<out, calls, model>>
       ELSE /\ \E genOk \in BOOLEAN, wav \in Wavs, encOk \in BOOLEAN :
                  LET r == generate(Bridge, Get(request, "text", ""),
                                    [k \in DOMAIN request \ {"type", "text"} |-> request[k]],
                                    genOk, wav, encOk)
                  IN  /\ calls' = r.calls
                      /\ out' = Emit(r.response)
                      /\ model' = IF r.response.status = "error" THEN NoModel ELSE model
            /\ pc' = "read"
    /\ UNCHANGED <<cudaAvail, mpsAvail, model_type, device, actual_device,
                   line, nRead, reqs, initOk>>

\* bridge.generate(text, **kwargs) binds self twice when kwargs has the key
\* "self": TypeError at the call in main, not caught
DispatchGenerate ==
    /\ IsRequest
    /\ request_type = "generate"
    /\ IF "self" \in DOMAIN Kwargs(request)
       THEN /\ pc' = "crashed"
            /\ UNCHANGED <<out, calls>>
       ELSE /\ \E genOk \in BOOLEAN, wav \in Wavs, encOk \in BOOLEAN :
                  LET r == generate(Bridge, Get(request, "text", ""), Kwargs(request),
                                    genOk, wav, encOk)
                  IN  /\ calls' = r.calls
                      /\ out' = Emit(r.response)
            /\ pc' = "read"
    /\ UNCHANGED <<cudaAvail, mpsAvail, model, model_type, device, actual_device,
                   line, nRead, reqs, initOk>>

PongResponse == [status |-> "ok", message |-> "pong"]

\* ping answered only once a model is loaded
DispatchPing_NeedsModel ==
    /\ IsRequest
    /\ request_type = "ping"
    /\ out' = Emit(IF model = NoModel THEN ErrorResponse("Model not initialized")
                   ELSE PongResponse)
    /\ pc' = "read"
    /\ UNCHANGED <<cudaAvail, mpsAvail, model, model_type, device, actual_device,
                   line, nRead, reqs, calls, initOk>>

DispatchPing ==
    /\ IsRequest
    /\ request_type = "ping"
    /\ out' = Emit(PongResponse)
    /\ pc' = "read"
    /\ UNCHANGED <<cudaAvail, mpsAvail, model, model_type, device, actual_device,
                   line, nRead, reqs, calls, initOk>>

\* the error text without the received type
UnknownTypeResponse_NoType(t) == ErrorResponse("Unknown request type")

UnknownTypeResponse(t) == ErrorResponse("Unknown request type: " \o Str(t))

DispatchUnknown ==
    /\ IsRequest
    /\ request_type \notin {"init", "generate", "ping"}
    /\ out' = Emit(UnknownTypeResponse(request_type))
    /\ pc' = "read"
    /\ UNCHANGED <<cudaAvail, mpsAvail, model, model_type, device, actual_device,
                   line, nRead, reqs, calls, initOk>>

Next ==
    \/ ReadLine
    \/ EndOfInput
    \/ ParseError
    \/ NonObjectRequest
    \/ DispatchInit
    \/ DispatchGenerate
    \/ DispatchPing
    \/ DispatchUnknown

Spec == Init /\ [][Next]_vars

(***************************************************************************)
(* Properties                                                              *)
(***************************************************************************)
Answered == Len(out) > 0 /\ Last(out).req = reqs
HandledObject == pc = "read" /\ line.k = "object" /\ Answered
HandledType(t) == HandledObject /\ Get(line.obj, "type", NoneVal) = t
NoCallRaised == \A i \in 1..Len(calls) : ~calls[i].raised
GenerateCalls == {i \in 1..Len(calls) : calls[i].fn = "generate"}
SessionEmpty(m, mt, d) == m = NoModel /\ mt = NoneVal /\ d = NoneVal

\* C1: whenever the loop is not in the middle of a line (it is about to read,
\* has returned or has stopped), every non-empty line taken so far has exactly
\* one response, blank lines have none, and the i-th response answers the
\* i-th non-empty line.
C1_OneResponsePerLine ==
    /\ pc # "dispatch" => Len(out) = reqs
    /\ \A i \in 1..Len(out) : out[i].req = i

\* C2: no line makes the loop stop: every dispatched line is answered with one
\* response and the loop goes back to reading; the loop ends only from the
\* read position, at the end of the input.
C2_StopsOnlyAtEndOfInput ==
    [][ /\ pc = "dispatch" => (pc' = "read" /\ Len(out') = Len(out) + 1)
        /\ pc' \in {"done", "crashed"} => (pc = "read" /\ pc' = "done") ]_vars

\* C3: a line that is not well-formed JSON is answered with one error response
\* whose text starts with "Invalid JSON: " and goes on with the parse failure,
\* the session is unchanged and the loop reads the next line.
C3_MalformedLine ==
    [][ (pc = "dispatch" /\ line.k = "text" /\ line.s \in MalformedTexts) =>
            /\ Len(out') = Len(out) + 1
            /\ SubSeq(out', 1, Len(out)) = out
            /\ Last(out').req = reqs
            /\ Last(out').resp.status = "error"
            /\ DOMAIN Last(out').resp = {"status", "error"}
            /\ Len(Last(out').resp.error) > 14
            /\ SubSeq(Last(out').resp.error, 1, 14) = "Invalid JSON: "
            /\ UNCHANGED session
            /\ calls' = <<>>
            /\ pc' = "read" ]_vars

\* C3 witness: a malformed line was answered and the line after it was
\* answered normally.
C3_Witness ==
    /\ Len(out) >= 2
    /\ out[1].resp = [status |-> "error", error |-> "Invalid JSON: Expecting value"]
    /\ out[2].resp = [status |-> "ok", device |-> "cpu"]
    /\ model # NoModel

\* C4: a generate request dispatched while no init has returned ok is answered
\* with exactly {status: error, error: "Model not initialized"} and makes no
\* call into the library.
C4_GenerateBeforeInit ==
    [][ (IsRequest /\ request_type = "generate" /\ ~initOk) =>
            /\ out' = Append(out, [req |-> reqs,
                                   resp |-> [status |-> "error",
                                             error |-> "Model not initialized"]])
            /\ calls' = <<>> ]_vars

\* C5: an init whose model is none of turbo, english, multilingual is answered
\* with "Unknown model type: <value>", calls no loader, and leaves an empty
\* session (handle, kind, device) empty.
C5_UnknownModelLeavesSessionUnset ==
    [][ (IsRequest /\ request_type = "init"
           /\ Get(request, "model", "turbo") \notin {"turbo", "english", "multilingual"}) =>
            /\ out' = Append(out, [req |-> reqs,
                                   resp |-> [status |-> "error",
                                             error |-> "Unknown model type: "
                                                        \o Get(request, "model", "turbo")]])
            /\ calls' = <<>>
            /\ SessionEmpty(model, model_type, device)
                  => SessionEmpty(model', model_type', device') ]_vars

\* C6: right after an init answered with status ok, the device of the response
\* is the device recorded in the session.
C6_ResponseDeviceIsSessionDevice ==
    (HandledType("init") /\ Last(out).resp.status = "ok")
        => Last(out).resp.device = device

\* C7: the device init resolves is "cuda" exactly for request "cuda" with CUDA
\* available, "mps" exactly for request "mps" with MPS available, and "cpu"
\* in every other case; it is always one of the three.
C7_DetectDevice ==
    HandledType("init") =>
        LET r == Get(line.obj, "device", "cuda")
            wantCuda == r = "cuda" /\ cudaAvail
            wantMps  == r = "mps" /\ mpsAvail
        IN  /\ actual_device \in {"cuda", "mps", "cpu"}
            /\ actual_device = "cuda" <=> wantCuda
            /\ actual_device = "mps" <=> wantMps
            /\ actual_device = "cpu" <=> (~wantCuda /\ ~wantMps)

\* C7 witness: the other accelerator is available, the requested one is not.
C7_Witness ==
    /\ HandledType("init")
    /\ Get(line.obj, "device", "cuda") = "mps"
    /\ cudaAvail /\ ~mpsAvail
    /\ actual_device = "cpu"

\* C8: after an init answered ok, a generate whose library call and encoding
\* both returned is answered with status ok and a non-empty audio text, with
\* one library generate call carrying the request's text; and init of turbo
\* on "cpu" whose load returned is answered {status: ok, device: cpu}.
C8_GenerateAfterInit ==
    /\ (HandledType("generate") /\ initOk /\ GenerateCalls # {} /\ NoCallRaised) =>
          /\ DOMAIN Last(out).resp = {"status", "audio"}
          /\ Last(out).resp.status = "ok"
          /\ Last(out).resp.audio > 0
          /\ Cardinality(GenerateCalls) = 1
          /\ \A i \in GenerateCalls : calls[i].text = Get(line.obj, "text", "")
    /\ (HandledObject /\ line.obj = [type |-> "init", model |-> "turbo", device |-> "cpu"]
          /\ calls # <<>> /\ NoCallRaised) =>
          Last(out).resp = [status |-> "ok", device |-> "cpu"]

\* C8 witness: init turbo on cpu answered ok, then generate "hello" answered
\* with audio.
C8_Witness ==
    /\ HandledType("generate")
    /\ line.obj = [type |-> "generate", text |-> "hello"]
    /\ Len(out) = 2
    /\ out[1].resp = [status |-> "ok", device |-> "cpu"]
    /\ out[2].resp.status = "ok"
    /\ model = [cls |-> "turbo", device |-> "cpu"]

\* C9: a request of type ping is answered with exactly
\* {status: ok, message: pong}, in every session state and whatever other
\* fields it carries.
C9_Ping ==
    (pc = "read" /\ line.k = "object" /\ Get(line.obj, "type", NoneVal) = "ping") =>
        /\ Answered
        /\ Last(out).resp = [status |-> "ok", message |-> "pong"]

\* C9 witness: a ping carrying other fields is answered on a loaded session
\* after a failed request.
C9_Witness ==
    /\ HandledType("ping")
    /\ DOMAIN line.obj # {"type"}
    /\ model # NoModel
    /\ Len(out) = 3
    /\ out[2].resp.status = "error"

\* C10: a request object whose type is none of init, generate, ping (or is
\* missing) is answered with "Unknown request type: <type>", and neither the
\* session nor the library is touched.
C10_UnknownType ==
    [][ (IsRequest /\ Get(request, "type", NoneVal) \notin {"init", "generate", "ping"}) =>
            /\ out' = Append(out, [req |-> reqs,
                         resp |-> [status |-> "error",
                                   error |-> "Unknown request type: "
                                      \o (IF "type" \in DOMAIN request /\ request.type # NoneVal
                                          THEN request.type ELSE "None")]])
            /\ UNCHANGED session
            /\ calls' = <<>>
            /\ pc' = "read" ]_vars

\* C10 witness: a request without a type was answered on a loaded session.
C10_Witness ==
    /\ HandledObject
    /\ "type" \notin DOMAIN line.obj
    /\ Last(out).resp = [status |-> "error", error |-> "Unknown request type: None"]
    /\ model # NoModel

\* C11: the options a generate forwards to the library are those of the kind
\* of the loaded model: exaggeration and cfg_weight only to an english model,
\* language only to a multilingual model.
C11_OptionsMatchLoadedModel ==
    HandledType("generate") =>
        \A i \in GenerateCalls :
            /\ "exaggeration" \in DOMAIN calls[i].kwargs => model.cls = "english"
            /\ "cfg_weight" \in DOMAIN calls[i].kwargs => model.cls = "english"
            /\ "language_id" \in DOMAIN calls[i].kwargs => model.cls = "multilingual"

\* C12: once an init has returned ok a model is loaded in every later state,
\* and no generate handled from then on is answered "Model not initialized".
C12_NeverReverts ==
    initOk =>
        /\ model # NoModel
        /\ HandledType("generate") =>
              Last(out).resp # [status |-> "error", error |-> "Model not initialized"]

\* C12 witness: an init answered ok, then a failed init, then a generate that
\* reached the library.
C12_Witness ==
    /\ HandledType("generate")
    /\ Len(out) = 3
    /\ out[1].resp.status = "ok"
    /\ out[2].resp.status = "error"
    /\ GenerateCalls # {}

\* C13: when the library's generate or the encoding raises while a generate
\* request is handled, the request gets exactly one error response carrying
\* the failure description, the library's generate was called once, the
\* session is unchanged and the loop reads the next line.
C13_GenerateFailure ==
    [][ (IsRequest /\ request_type = "generate"
           /\ \E i \in 1..Len(calls') : calls'[i].raised) =>
            /\ model # NoModel
            /\ out' = Append(out, [req |-> reqs,
                         resp |-> [status |-> "error",
                                   error |-> IF calls'[1].raised THEN "generate failed"
                                             ELSE "save failed"]])
            /\ Cardinality({i \in 1..Len(calls') : calls'[i].fn = "generate"}) = 1
            /\ UNCHANGED session
            /\ pc' = "read" ]_vars

\* C13 witness: on a loaded session a generate failed in the library and the
\* generate after it was answered with audio.
C13_Witness ==
    /\ HandledType("generate")
    /\ Len(out) = 3
    /\ out[2].resp = [status |-> "error", error |-> "generate failed"]
    /\ out[3].resp.status = "ok"
    /\ "audio" \in DOMAIN out[3].resp

\* C14: the loader is given "cpu" when the resolved device is "mps" and the
\* resolved device otherwise; components are relocated exactly when the
\* resolved device is "mps" and the load returned, after the load; and when
\* the relocation raises init still answers ok, with the model loaded and the
\* session's device "cpu".
C14_LoadAndRelocate ==
    HandledType("init") =>
        LET loads == {i \in 1..Len(calls) : calls[i].fn = "from_pretrained"}
            moves == {i \in 1..Len(calls) : calls[i].fn = "to"}
        IN  /\ \A i \in loads :
                  calls[i].device = (IF actual_device = "mps" THEN "cpu" ELSE actual_device)
            /\ moves # {} <=>
                  (actual_device = "mps" /\ \E i \in loads : ~calls[i].raised)
            /\ \A j \in moves : \E i \in loads : i < j
            /\ \A j \in moves : calls[j].raised =>
                  /\ Last(out).resp.status = "ok"
                  /\ model # NoModel
                  /\ model.cls = Get(line.obj, "model", "turbo")
                  /\ device = "cpu"

\* C14 witness: MPS was resolved, the load went to "cpu" and the relocation
\* raised.
C14_Witness ==
    /\ HandledType("init")
    /\ actual_device = "mps"
    /\ Len(calls) = 2
    /\ calls[1].device = "cpu"
    /\ calls[2].fn = "to" /\ calls[2].raised
    /\ device = "cpu"

\* C15: an init without `model` behaves as one with model "turbo", an init
\* without `device` as one with device "cuda" (resolved to "cpu" when no CUDA
\* is available), and a generate without `text` calls the library with "".
C15_Defaults ==
    [][ /\ (IsRequest /\ request_type = "init" /\ "model" \notin DOMAIN request) =>
              /\ model_type' = "turbo"
              /\ \E loadOk \in BOOLEAN, moveOk \in BOOLEAN :
                    LET e == init_model(Bridge, "turbo", Get(request, "device", "cuda"),
                                        cudaAvail, mpsAvail, loadOk, moveOk)
                    IN  /\ <<model', model_type', device'>> =
                              <<e.bridge.model, e.bridge.model_type, e.bridge.device>>
                        /\ out' = Append(out, [req |-> reqs, resp |-> e.response])
                        /\ calls' = e.calls
        /\ (IsRequest /\ request_type = "init" /\ "device" \notin DOMAIN request) =>
              /\ actual_device' = (IF cudaAvail THEN "cuda" ELSE "cpu")
              /\ \E loadOk \in BOOLEAN, moveOk \in BOOLEAN :
                    LET e == init_model(Bridge, Get(request, "model", "turbo"), "cuda",
                                        cudaAvail, mpsAvail, loadOk, moveOk)
                    IN  /\ <<model', model_type', device'>> =
                              <<e.bridge.model, e.bridge.model_type, e.bridge.device>>
                        /\ out' = Append(out, [req |-> reqs, resp |-> e.response])
                        /\ calls' = e.calls
        /\ (IsRequest /\ request_type = "generate" /\ "text" \notin DOMAIN request) =>
              \A i \in 1..Len(calls') :
                  calls'[i].fn = "generate" => calls'[i].text = "" ]_vars

\* C15 witness: an init with neither model nor device, on a host without
\* CUDA, loaded turbo on "cpu".
C15_Witness ==
    /\ HandledType("init")
    /\ DOMAIN line.obj = {"type"}
    /\ ~cudaAvail
    /\ Last(out).resp = [status |-> "ok", device |-> "cpu"]
    /\ model = [cls |-> "turbo", device |-> "cpu"]
    /\ model_type = "turbo"

\* C16: an init answered with an error leaves model handle, kind and device
\* as they were, so whenever a model is loaded the recorded kind is the kind
\* of that model.
C16_FailedInitLeavesSession ==
    [][ /\ (IsRequest /\ request_type = "init" /\ Len(out') = Len(out) + 1
              /\ Last(out').resp.status = "error") => UNCHANGED session
        /\ model' # NoModel => model_type' = model'.cls ]_vars

\* C17: a step that is not the handling of an init request (blank line,
\* malformed line, ping, generate, unknown type, end of input) leaves model
\* handle, kind and device as they were.
C17_OnlyInitChangesSession ==
    [][ ~(IsRequest /\ request_type = "init") => UNCHANGED session ]_vars

\* C17 witness: on a loaded session a generate failed and a request of
\* unknown type followed; the session still holds the loaded model.
C17_Witness ==
    /\ HandledObject
    /\ Get(line.obj, "type", NoneVal) \notin {"init", "generate", "ping"}
    /\ Len(out) = 3
    /\ out[1].resp.status = "ok"
    /\ out[2].resp = [status |-> "error", error |-> "save failed"]
    /\ model # NoModel
    /\ model_type = model.cls

====
